---- MODULE Spec2Model ----
(***************************************************************************)
(* num (Network Uptime Monitor): the monitor loop of src/src/main.rs and   *)
(* the probe engine of src/src/engine.rs.                                  *)
(*                                                                         *)
(* The process runs on a current-thread runtime (main.rs:36): the main     *)
(* future and the spawned application task interleave only where one of    *)
(* them awaits.  Every action below is the code between two awaits.        *)
(***************************************************************************)
EXTENDS Integers, Sequences, FiniteSets, TLC

(* ---------------------------- bounds ----------------------------------- *)
MaxProbes == 2       \* probes started in one run
MaxClock == 4        \* largest wall-clock reading
MaxDue == 2          \* ticks of the interval that are due and not yet taken
UnitsPerMs == 2      \* resolution of a Duration below one millisecond

(* ------------------------ program constants ---------------------------- *)
MsPerSec == 1000     \* main.rs:91
NumBytes == 4        \* main.rs:78
Ttl == 128           \* main.rs:79

(* ------------------------------ inputs --------------------------------- *)
\* ADDRESS argument: an IPv4 literal, an IPv6 literal, a host name, host:port
Addrs == {"192.0.2.1", "2001:db8::1", "example.org", "example.org:80"}
Timeouts == {1000, 5000, 6000}             \* --timeout, ms
Delays == {5}                              \* --delay, s (clap range 5..)
Rtts == UnitsPerMs .. (UnitsPerMs + 1)     \* round-trip times the transport reports

None == -1                           \* Option::None of a time or a latency
NoAddr == "unresolved"
DnsAnswer == "198.51.100.7"          \* first record of a successful lookup

VARIABLES
    addr, timeout, delay, pathValid,     \* command line and output directory
    mainpc, taskpc, exitCode,            \* main future, app_task, process exit
    cfgExists, cfgContent,               \* config_<start>.json
    csvExists, csvRows,                  \* result_<start>.csv
    ip_addr, start_time,                 \* resolved target; wall clock at construction
    last_successful_latency, last_successful_time, last_failed_time,
    curr_time, output,                   \* locals of Engine::ping
    now, clockSetBack,                   \* wall clock; whether it was ever set back
    probes, started, returned,           \* history: transport outcomes, pings begun, pings returned
    abortedAt, panicAt, lookups,         \* history: where the task was aborted / panicked; names looked up
    cfgWasThere, csvWasThere,            \* history: the files that were there before the run
    due, elapsed,                        \* interval: ticks that are due; a whole delay has passed since the last probe began
    ticks,                               \* history: ticks taken by the loop
    sigint                               \* Ctrl+C was pressed and main has not yet run

vars == << addr, timeout, delay, pathValid, mainpc, taskpc, exitCode,
           cfgExists, cfgContent, csvExists, csvRows,
           ip_addr, start_time,
           last_successful_latency, last_successful_time, last_failed_time,
           curr_time, output, now, clockSetBack,
           probes, started, returned, abortedAt, panicAt, lookups,
           cfgWasThere, csvWasThere, due, elapsed, ticks, sigint >>

(* --------------------------- pure helpers ------------------------------ *)
\* addr.parse::<IpAddr>() succeeds
ParsesAsIp(a) == a \in {"192.0.2.1", "2001:db8::1"}

\* addr.contains(':')
ContainsColon(a) == a \in {"2001:db8::1", "example.org:80"}

\* the name handed to net::lookup_host
LookupName(a) == IF ContainsColon(a) THEN a ELSE a \o ":80"

\* Duration::as_millis: whole milliseconds, the remainder is dropped
as_millis(d) == d \div UnitsPerMs

\* Result<(IcmpPacket, Duration), SurgeError>
OkOut(rtt) == [ok |-> TRUE, rtt |-> rtt]
ErrOut == [ok |-> FALSE, rtt |-> 0]
Outcomes == {OkOut(r) : r \in Rtts} \cup {ErrOut}
NoOutput == [ok |-> FALSE, rtt |-> None]

\* one line of the result file
Header == [kind |-> "header", ts |-> 0, failed |-> FALSE, ms |-> 0]
OldRow == [kind |-> "old", ts |-> 0, failed |-> FALSE, ms |-> 0]

\* a failed probe is written as a latency of 0 ms
Row_FailedAsZero(timestamp, result) ==
    [kind |-> "data", ts |-> timestamp, failed |-> FALSE,
     ms |-> IF result.ok THEN as_millis(result.rtt) ELSE 0]

\* format!("{},{}\n", timestamp, rtt)
Row(timestamp, result) ==
    IF result.ok
    THEN [kind |-> "data", ts |-> timestamp, failed |-> FALSE, ms |-> as_millis(result.rtt)]
    ELSE [kind |-> "data", ts |-> timestamp, failed |-> TRUE, ms |-> 0]

\* the JSON document of create_config
ConfigJson(ip, ms, d) ==
    [address |-> ip, num_bytes |-> NumBytes, timeout |-> ms, ttl |-> Ttl, delay |-> d]
OldConfig == [address |-> "previous-run", num_bytes |-> 0, timeout |-> 0, ttl |-> 0, delay |-> 0]
NoConfig == [address |-> "", num_bytes |-> 0, timeout |-> 0, ttl |-> 0, delay |-> 0]

(* ------------------------------- Init ---------------------------------- *)
Init ==
    /\ addr \in Addrs
    /\ timeout \in Timeouts
    /\ delay \in Delays
    /\ pathValid \in BOOLEAN
    /\ mainpc = "check_path"
    /\ taskpc = "unspawned"
    /\ exitCode = None
    /\ cfgExists \in BOOLEAN
    /\ cfgContent = IF cfgExists THEN OldConfig ELSE NoConfig
    /\ csvExists \in BOOLEAN
    /\ csvRows = IF csvExists THEN << OldRow >> ELSE << >>
    /\ ip_addr = NoAddr
    /\ start_time = None
    /\ last_successful_latency = None
    /\ last_successful_time = None
    /\ last_failed_time = None
    /\ curr_time = None
    /\ output = NoOutput
    /\ now = 0
    /\ clockSetBack = FALSE
    /\ probes = << >>
    /\ started = 0
    /\ returned = 0
    /\ abortedAt = ""
    /\ panicAt = ""
    /\ lookups = << >>
    /\ cfgWasThere = cfgExists
    /\ csvWasThere = csvExists
    /\ due = 0
    /\ elapsed = FALSE
    /\ ticks = 0
    /\ sigint = FALSE

engineVars == << ip_addr, last_successful_latency, last_successful_time, last_failed_time >>
stateVars == << last_successful_latency, last_successful_time, last_failed_time >>
pingVars == << curr_time, output >>
fileVars == << cfgExists, cfgContent, csvExists, csvRows >>
argVars == << addr, timeout, delay, pathValid >>
clockVars == << now, clockSetBack >>
histVars == << probes, started, returned, abortedAt, panicAt, lookups >>
startVars == << cfgWasThere, csvWasThere, start_time >>
loopVars == << due, elapsed, ticks, sigint >>

(* ------------------------------- main ---------------------------------- *)
\* main.rs:81-88: the output path must exist and be a directory
CheckPath ==
    /\ mainpc = "check_path"
    /\ IF ~pathValid
       THEN /\ mainpc' = "exited"
            /\ exitCode' = 1
       ELSE /\ mainpc' = "check_timeout"
            /\ UNCHANGED exitCode
    /\ UNCHANGED << loopVars, startVars, argVars, taskpc, fileVars, engineVars, pingVars, clockVars, histVars >>

\* the comparison without its equal case
TimeoutTooLong_Strict(ms, d) == ms > d * MsPerSec

\* main.rs:91: timeout >= delay * 1000
TimeoutTooLong(ms, d) == ms >= d * MsPerSec

\* main.rs:90-99
CheckTimeout ==
    /\ mainpc = "check_timeout"
    /\ IF TimeoutTooLong(timeout, delay)
       THEN /\ mainpc' = "exited"
            /\ exitCode' = 1
       ELSE /\ mainpc' = "spawn"
            /\ UNCHANGED exitCode
    /\ UNCHANGED << loopVars, startVars, argVars, taskpc, fileVars, engineVars, pingVars, clockVars, histVars >>

\* main.rs:101-104: task::spawn; main goes on to await signal::ctrl_c(); the
\* task creates the interval, whose first tick is due at once, and calls
\* Engine::new
Spawn ==
    /\ mainpc = "spawn"
    /\ mainpc' = "wait_ctrlc"
    /\ taskpc' = "resolve"
    /\ due' = 1
    /\ UNCHANGED << elapsed, ticks, sigint, startVars, argVars, exitCode, fileVars, engineVars, pingVars, clockVars, histVars >>

(* ---------------------------- app_task --------------------------------- *)
\* a panic unwinds the spawned task only; the runtime catches it and the
\* main future keeps waiting at main.rs:154
Panic(where) ==
    /\ taskpc' = "panicked"
    /\ panicAt' = where

\* the colon is looked for before the string is parsed, so an IPv6 literal is
\* handed to the resolver
process_ip_ColonFirst ==
    /\ taskpc = "resolve"
    /\ IF ParsesAsIp(addr) /\ ~ContainsColon(addr)
       THEN /\ ip_addr' = addr
            /\ taskpc' = "socket"
            /\ UNCHANGED << lookups, panicAt >>
       ELSE /\ lookups' = Append(lookups, LookupName(addr))
            /\ \E found \in BOOLEAN :
                 IF found
                 THEN /\ ip_addr' = DnsAnswer
                      /\ taskpc' = "socket"
                      /\ UNCHANGED panicAt
                 ELSE /\ Panic("process_ip")
                      /\ UNCHANGED ip_addr
    /\ UNCHANGED << loopVars, startVars, argVars, mainpc, exitCode, fileVars, stateVars, pingVars, clockVars,
                    probes, started, returned, abortedAt >>

\* engine.rs:116-136 (called at engine.rs:59)
process_ip ==
    /\ taskpc = "resolve"
    /\ IF ParsesAsIp(addr)
       THEN /\ ip_addr' = addr
            /\ taskpc' = "socket"
            /\ UNCHANGED << lookups, panicAt >>
       ELSE /\ lookups' = Append(lookups, LookupName(addr))
            /\ \E found \in BOOLEAN :
                 IF found
                 THEN /\ ip_addr' = DnsAnswer
                      /\ taskpc' = "socket"
                      /\ UNCHANGED panicAt
                 ELSE /\ Panic("process_ip")
                      /\ UNCHANGED ip_addr
    /\ UNCHANGED << loopVars, startVars, argVars, mainpc, exitCode, fileVars, stateVars, pingVars, clockVars,
                    probes, started, returned, abortedAt >>

\* engine.rs:60-86: Client::new(&config).unwrap() and client.pinger(), then
\* the Engine is built and start_time read from the wall clock
OpenSocket ==
    /\ taskpc = "socket"
    /\ \E opened \in BOOLEAN :
         IF opened
         THEN /\ taskpc' = "create_config"
              /\ start_time' = now
              /\ UNCHANGED panicAt
         ELSE /\ Panic("Client::new")
              /\ UNCHANGED start_time
    /\ UNCHANGED << loopVars, cfgWasThere, csvWasThere, argVars, mainpc, exitCode, fileVars, engineVars, pingVars, clockVars,
                    probes, started, returned, abortedAt, lookups >>

\* engine.rs:139-158 (called at engine.rs:87): File::create truncates a file
\* that is already there
create_config ==
    /\ taskpc = "create_config"
    /\ \E res \in {"ok", "create_err", "write_err"} :
         CASE res = "ok" ->
                /\ cfgExists' = TRUE
                /\ cfgContent' = ConfigJson(ip_addr, timeout, delay)
                /\ taskpc' = "init_csv"
                /\ UNCHANGED panicAt
           [] res = "create_err" ->
                /\ Panic("create_config")
                /\ UNCHANGED << cfgExists, cfgContent >>
           [] res = "write_err" ->
                /\ cfgExists' = TRUE
                /\ cfgContent' = NoConfig
                /\ Panic("create_config")
    /\ UNCHANGED << loopVars, startVars, argVars, mainpc, exitCode, csvExists, csvRows, engineVars, pingVars,
                    clockVars, probes, started, returned, abortedAt, lookups >>

\* engine.rs:161-182 (called at engine.rs:88): create_new(true) refuses a
\* file that is already there
init_csv ==
    /\ taskpc = "init_csv"
    /\ IF csvExists
       THEN /\ Panic("init_csv")
            /\ UNCHANGED << csvExists, csvRows >>
       ELSE \E res \in {"ok", "create_err", "write_err"} :
              CASE res = "ok" ->
                     /\ csvExists' = TRUE
                     /\ csvRows' = << Header >>
                     /\ taskpc' = "tick"
                     /\ UNCHANGED panicAt
                [] res = "create_err" ->
                     /\ Panic("init_csv")
                     /\ UNCHANGED << csvExists, csvRows >>
                [] res = "write_err" ->
                     /\ csvExists' = TRUE
                     /\ csvRows' = << >>
                     /\ Panic("init_csv")
    /\ UNCHANGED << loopVars, startVars, argVars, mainpc, exitCode, cfgExists, cfgContent, engineVars, pingVars,
                    clockVars, probes, started, returned, abortedAt, lookups >>

\* main.rs:122: interval.tick().await completes when a tick is due; a tick
\* that was missed stays due (MissedTickBehavior::Burst, the default of
\* tokio::time::interval, main.rs:104)
Tick ==
    /\ taskpc = "tick"
    /\ started < MaxProbes
    /\ due >= 1
    /\ due' = due - 1
    /\ ticks' = ticks + 1
    /\ taskpc' = "ping"
    /\ UNCHANGED << elapsed, sigint, startVars, argVars, mainpc, exitCode, fileVars, engineVars, pingVars, clockVars,
                    histVars >>

\* the probe stamped with the time of the first probe instead of the current time
PingStart_StaleTime ==
    /\ taskpc = "ping"
    /\ curr_time' = IF curr_time = None THEN now ELSE curr_time
    /\ started' = started + 1
    /\ taskpc' = "transport"
    /\ elapsed' = FALSE
    /\ UNCHANGED << due, ticks, sigint, startVars, argVars, mainpc, exitCode, fileVars, engineVars, output, clockVars,
                    probes, returned, abortedAt, panicAt, lookups >>

\* engine.rs:94-103: read the wall clock, then hand the packet to the transport
PingStart ==
    /\ taskpc = "ping"
    /\ curr_time' = now
    /\ started' = started + 1
    /\ taskpc' = "transport"
    /\ elapsed' = FALSE
    /\ UNCHANGED << due, ticks, sigint, startVars, argVars, mainpc, exitCode, fileVars, engineVars, output, clockVars,
                    probes, returned, abortedAt, panicAt, lookups >>

\* the rolling state updated as soon as the transport answers, before the row
\* is written
TransportReply_StateFirst ==
    /\ taskpc = "transport"
    /\ now < MaxClock
    /\ \E out \in Outcomes :
         /\ output' = out
         /\ probes' = Append(probes, [ts |-> curr_time, out |-> out])
         /\ IF out.ok
            THEN /\ last_successful_latency' = out.rtt
                 /\ last_successful_time' = curr_time
                 /\ UNCHANGED last_failed_time
            ELSE /\ last_failed_time' = curr_time
                 /\ UNCHANGED << last_successful_latency, last_successful_time >>
    /\ now' = now + 1
    /\ taskpc' = "write_all"
    /\ UNCHANGED << loopVars, startVars, argVars, mainpc, exitCode, fileVars, ip_addr, curr_time,
                    clockSetBack, started, returned, abortedAt, panicAt, lookups >>

\* the wall clock is read again when the transport has answered
TransportReply_Restamps ==
    /\ taskpc = "transport"
    /\ now < MaxClock
    /\ \E out \in Outcomes :
         /\ output' = out
         /\ probes' = Append(probes, [ts |-> now + 1, out |-> out])
    /\ now' = now + 1
    /\ curr_time' = now + 1
    /\ taskpc' = "write_all"
    /\ UNCHANGED << loopVars, startVars, argVars, mainpc, exitCode, fileVars, engineVars, clockSetBack,
                    started, returned, abortedAt, panicAt, lookups >>

\* engine.rs:103: the transport answers (a reply with its round-trip time, or
\* an error); the call has taken some time
TransportReply ==
    /\ taskpc = "transport"
    /\ now < MaxClock
    /\ \E out \in Outcomes :
         /\ output' = out
         /\ probes' = Append(probes, [ts |-> curr_time, out |-> out])
    /\ now' = now + 1
    /\ taskpc' = "write_all"
    /\ UNCHANGED << loopVars, startVars, argVars, mainpc, exitCode, fileVars, engineVars, curr_time, clockSetBack,
                    started, returned, abortedAt, panicAt, lookups >>

\* a failed probe leaves no row
write_csv_SkipsFailed ==
    /\ taskpc = "write_all"
    /\ \E res \in {"ok", "err"} :
         IF res = "ok"
         THEN /\ csvRows' = IF output.ok THEN Append(csvRows, Row(curr_time, output))
                                         ELSE csvRows
              /\ taskpc' = "flush"
              /\ UNCHANGED panicAt
         ELSE /\ Panic("write_csv")
              /\ UNCHANGED csvRows
    /\ UNCHANGED << loopVars, startVars, argVars, mainpc, exitCode, cfgExists, cfgContent, csvExists,
                    engineVars, pingVars, clockVars, probes, started, returned, abortedAt,
                    lookups >>

\* the append is handed to a task of its own and not awaited: ping goes on
\* without the row in the file
write_csv_NotAwaited ==
    /\ taskpc = "write_all"
    /\ taskpc' = "flush"
    /\ UNCHANGED << loopVars, startVars, argVars, mainpc, exitCode, fileVars, engineVars,
                    pingVars, clockVars, histVars >>

\* the result file is opened with File::create for every row, which empties it
write_csv_Truncates ==
    /\ taskpc = "write_all"
    /\ \E res \in {"ok", "err"} :
         IF res = "ok"
         THEN /\ csvRows' = << Header, Row(curr_time, output) >>
              /\ taskpc' = "flush"
              /\ UNCHANGED panicAt
         ELSE /\ Panic("write_csv")
              /\ UNCHANGED csvRows
    /\ UNCHANGED << loopVars, startVars, argVars, mainpc, exitCode, cfgExists, cfgContent, csvExists, engineVars,
                    pingVars, clockVars, probes, started, returned, abortedAt, lookups >>

\* engine.rs:185-199 (called at engine.rs:104): the row is appended
write_csv ==
    /\ taskpc = "write_all"
    /\ \E res \in {"ok", "err"} :
         IF res = "ok"
         THEN /\ csvRows' = Append(csvRows, Row(curr_time, output))
              /\ taskpc' = "flush"
              /\ UNCHANGED panicAt
         ELSE /\ Panic("write_csv")
              /\ UNCHANGED csvRows
    /\ UNCHANGED << loopVars, startVars, argVars, mainpc, exitCode, cfgExists, cfgContent, csvExists, engineVars,
                    pingVars, clockVars, probes, started, returned, abortedAt, lookups >>

\* a failure also forgets the last success
UpdateState_ClearsOther ==
    IF output.ok
    THEN /\ last_successful_latency' = output.rtt
         /\ last_successful_time' = curr_time
         /\ UNCHANGED last_failed_time
    ELSE /\ last_failed_time' = curr_time
         /\ last_successful_latency' = None
         /\ last_successful_time' = None

\* a success records its time and not its latency
UpdateState_TimeOnly ==
    IF output.ok
    THEN /\ last_successful_time' = curr_time
         /\ UNCHANGED << last_successful_latency, last_failed_time >>
    ELSE /\ last_failed_time' = curr_time
         /\ UNCHANGED << last_successful_latency, last_successful_time >>

\* engine.rs:105-110: the rolling state after a probe
UpdateState ==
    IF output.ok
    THEN /\ last_successful_latency' = output.rtt
         /\ last_successful_time' = curr_time
         /\ UNCHANGED last_failed_time
    ELSE /\ last_failed_time' = curr_time
         /\ UNCHANGED << last_successful_latency, last_successful_time >>

\* a failed probe is tried again at once, without waiting for the next tick
PingFinish_RetriesFailure ==
    /\ taskpc = "flush"
    /\ \E res \in {"ok", "err"} :
         IF res = "ok"
         THEN /\ UpdateState
              /\ returned' = returned + 1
              /\ taskpc' = IF output.ok THEN "render" ELSE "ping"
              /\ UNCHANGED panicAt
         ELSE /\ Panic("flush")
              /\ UNCHANGED << stateVars, returned >>
    /\ UNCHANGED << loopVars, startVars, argVars, mainpc, exitCode, fileVars, ip_addr, pingVars, clockVars,
                    probes, started, abortedAt, lookups >>

\* engine.rs:200-205, then engine.rs:105-111: the flush completes, the state
\* is updated and ping returns
PingFinish ==
    /\ taskpc = "flush"
    /\ \E res \in {"ok", "err"} :
         IF res = "ok"
         THEN /\ UpdateState
              /\ returned' = returned + 1
              /\ taskpc' = "render"
              /\ UNCHANGED panicAt
         ELSE /\ Panic("flush")
              /\ UNCHANGED << stateVars, returned >>
    /\ UNCHANGED << loopVars, startVars, argVars, mainpc, exitCode, fileVars, ip_addr, pingVars, clockVars,
                    probes, started, abortedAt, lookups >>

\* the screen code unwraps the probe's result, so a failed probe ends the task
Render_StopsOnFailure ==
    /\ taskpc = "render"
    /\ IF ~output.ok
       THEN Panic("generate_ping_text")
       ELSE /\ taskpc' = "tick"
            /\ UNCHANGED panicAt
    /\ UNCHANGED << loopVars, startVars, argVars, mainpc, exitCode, fileVars, engineVars, pingVars,
                    clockVars, probes, started, returned, abortedAt, lookups >>

\* main.rs:124-150: the texts of the screen; generate_last_success_text
\* (main.rs:175-189) unwraps the latency when the time is there
Render ==
    /\ taskpc = "render"
    /\ IF last_successful_time # None /\ last_successful_latency = None
       THEN Panic("get_last_successful_latency")
       ELSE /\ taskpc' = "tick"
            /\ UNCHANGED panicAt
    /\ UNCHANGED << loopVars, startVars, argVars, mainpc, exitCode, fileVars, engineVars, pingVars, clockVars,
                    probes, started, returned, abortedAt, lookups >>

(* ----------------------------- operator -------------------------------- *)
\* the operator presses Ctrl+C: signal::ctrl_c() (main.rs:154) becomes ready
SignalArrives ==
    /\ mainpc = "wait_ctrlc"
    /\ ~sigint
    /\ sigint' = TRUE
    /\ UNCHANGED << due, elapsed, ticks, startVars, argVars, mainpc, taskpc, exitCode, fileVars,
                    engineVars, pingVars, clockVars, histVars >>

\* where app_task can be suspended when the main future runs
AwaitPoints == {"resolve", "socket", "create_config", "init_csv", "tick",
                "transport", "write_all", "flush"}

\* Ctrl+C that lets a probe in flight run on instead of aborting the task
CtrlC_Cooperative ==
    /\ mainpc = "wait_ctrlc"
    /\ sigint
    /\ taskpc \in AwaitPoints \cup {"panicked"}
    /\ mainpc' = "exited"
    /\ exitCode' = 0
    /\ abortedAt' = taskpc
    /\ taskpc' = IF taskpc \in {"panicked", "transport", "write_all", "flush"}
                 THEN taskpc ELSE "aborted"
    /\ UNCHANGED << loopVars, startVars, argVars, fileVars, engineVars, pingVars, clockVars,
                    probes, started, returned, panicAt, lookups >>

\* Ctrl+C that ends the process like the failed checks of main do, with code 1
CtrlC_ExitFailure ==
    /\ mainpc = "wait_ctrlc"
    /\ sigint
    /\ taskpc \in AwaitPoints \cup {"panicked"}
    /\ mainpc' = "exited"
    /\ exitCode' = 1
    /\ abortedAt' = taskpc
    /\ taskpc' = IF taskpc = "panicked" THEN "panicked" ELSE "aborted"
    /\ UNCHANGED << loopVars, startVars, argVars, fileVars, engineVars, pingVars, clockVars,
                    probes, started, returned, panicAt, lookups >>

\* main.rs:153-161: Ctrl+C wakes the main future, which aborts app_task and
\* returns
CtrlC ==
    /\ mainpc = "wait_ctrlc"
    /\ sigint
    /\ taskpc \in AwaitPoints \cup {"panicked"}
    /\ mainpc' = "exited"
    /\ exitCode' = 0
    /\ abortedAt' = taskpc
    /\ taskpc' = IF taskpc = "panicked" THEN "panicked" ELSE "aborted"
    /\ UNCHANGED << loopVars, startVars, argVars, fileVars, engineVars, pingVars, clockVars,
                    probes, started, returned, panicAt, lookups >>

(* ---------------------------- wall clock ------------------------------- *)
\* where the task can wait for a whole delay or longer: the DNS lookup of
\* setup, the wait for the next tick, the flush of the result file (the
\* transport call is shorter than the delay, main.rs:91)
LongWaits == {"resolve", "tick", "flush"}

\* a whole delay passes: the wall clock moves on and one more tick of the
\* interval is due (the task that waits for a tick takes one that is due
\* before another delay has passed)
ClockAdvance ==
    /\ mainpc # "exited"
    /\ taskpc \in LongWaits
    /\ taskpc = "tick" => due = 0
    /\ now < MaxClock
    /\ due < MaxDue
    /\ now' = now + 1
    /\ due' = due + 1
    /\ elapsed' = TRUE
    /\ UNCHANGED << ticks, sigint, startVars, argVars, mainpc, taskpc, exitCode, fileVars, engineVars, pingVars,
                    clockSetBack, histVars >>

\* OffsetDateTime::now_local (engine.rs:98) reads the system's wall clock,
\* which an administrator or a time service can set back
ClockSetBack ==
    /\ mainpc # "exited"
    /\ taskpc = "tick"
    /\ now > 0
    /\ now' = now - 1
    /\ clockSetBack' = TRUE
    /\ UNCHANGED << loopVars, startVars, argVars, mainpc, taskpc, exitCode, fileVars, engineVars, pingVars,
                    histVars >>

Next ==
    \/ CheckPath
    \/ CheckTimeout
    \/ Spawn
    \/ process_ip
    \/ OpenSocket
    \/ create_config
    \/ init_csv
    \/ Tick
    \/ PingStart
    \/ TransportReply
    \/ write_csv
    \/ PingFinish
    \/ Render
    \/ SignalArrives
    \/ CtrlC
    \/ ClockAdvance
    \/ ClockSetBack

Spec == Init /\ [][Next]_vars

\* The starts of the liveness checks: one literal and one host name, no
\* config.json left by an earlier run (what create_config overwrites has no
\* part in how the loop runs).
LiveInit ==
    /\ Init
    /\ addr \in {"192.0.2.1", "example.org"}
    /\ ~cfgExists

\* The runtime polls a future that is ready: the task runs its code up to the
\* next await (PingStart, Render), takes a tick that is due (Tick), and the
\* main future runs once Ctrl+C has woken it and the task is suspended (CtrlC).
FairSpec ==
    /\ LiveInit
    /\ [][Next]_vars
    /\ WF_vars(PingStart)
    /\ WF_vars(Render)
    /\ WF_vars(Tick)
    /\ SF_vars(CtrlC)

TypeOK ==
    /\ mainpc \in {"check_path", "check_timeout", "spawn", "wait_ctrlc", "exited"}
    /\ taskpc \in AwaitPoints \cup {"unspawned", "ping", "render", "panicked", "aborted"}
    /\ exitCode \in {None, 0, 1}
    /\ now \in 0 .. MaxClock
    /\ started \in 0 .. MaxProbes
    /\ returned \in 0 .. started

(* ------------------------- notions of the claims ----------------------- *)
SetupPcs == {"unspawned", "resolve", "socket", "create_config", "init_csv"}
SetupPanics == {"process_ip", "Client::new", "create_config", "init_csv"}
InFlightPcs == {"transport", "write_all", "flush"}

\* Engine::new has returned an Engine
NewSucceeded ==
    /\ taskpc \notin SetupPcs
    /\ ~(taskpc = "panicked" /\ panicAt \in SetupPanics)
    /\ ~(taskpc = "aborted" /\ abortedAt \in SetupPcs)

\* the data rows of the result file
DataRows == IF Len(csvRows) = 0 THEN << >> ELSE Tail(csvRows)

\* the last of the first n probes with the given kind of outcome, 0 if none
LastOf(ok, n) ==
    LET S == {i \in 1 .. n : probes[i].out.ok = ok}
    IN  IF S = {} THEN 0 ELSE CHOOSE i \in S : \A j \in S : j <= i

\* Ctrl+C came while a probe was in flight
CancelledInFlight == mainpc = "exited" /\ abortedAt \in InFlightPcs

(* -------------------------------- C1 ----------------------------------- *)
\* C1: after N completed Engine::ping() calls that follow a successful
\* Engine::new(), the result file is the header row followed by N data rows,
\* and the i-th data row has the timestamp of the i-th call and its latency
\* in milliseconds, or "failed".
C1_LogHasOneRowPerPing ==
    NewSucceeded =>
        /\ Len(csvRows) >= 1 + returned
        /\ csvRows[1] = Header
        /\ \A i \in 1 .. returned :
             /\ csvRows[i + 1].kind = "data"
             /\ csvRows[i + 1].ts = probes[i].ts
             /\ csvRows[i + 1].failed = ~probes[i].out.ok
             /\ probes[i].out.ok => csvRows[i + 1].ms = probes[i].out.rtt \div UnitsPerMs
        /\ started = returned => Len(csvRows) = 1 + returned

C1_Witness ==
    /\ NewSucceeded
    /\ returned >= 2
    /\ started = returned
    /\ probes[1].out.ok
    /\ ~probes[2].out.ok

TimestampsIncrease ==
    \A i \in 1 .. Len(DataRows) : \A j \in 1 .. Len(DataRows) :
        i < j => DataRows[i].ts < DataRows[j].ts

\* C3 as stated: in every run the timestamps of the data rows are strictly
\* increasing in row order.
C3_TimestampsAlwaysIncrease == NewSucceeded => TimestampsIncrease

\* C3 as amended: the timestamps of the data rows are strictly increasing in
\* row order in every run in which the wall clock is not set back.
C3_TimestampsIncreaseUnlessClockSetBack ==
    (NewSucceeded /\ ~clockSetBack) => TimestampsIncrease

C3_Witness ==
    /\ NewSucceeded
    /\ ~clockSetBack
    /\ Len(DataRows) >= 2

(* -------------------------------- C4 ----------------------------------- *)
\* the task has gone past create_config / past init_csv
PastCreateConfig ==
    \/ taskpc \notin SetupPcs \cup {"panicked", "aborted"}
    \/ taskpc = "init_csv"
    \/ taskpc = "panicked" /\ panicAt \notin {"process_ip", "Client::new"}
    \/ taskpc = "aborted" /\ abortedAt \notin {"resolve", "socket", "create_config"}

\* C4: when config_<start>.json or result_<start>.csv is already in the
\* output directory, its creation fails and the file that was there keeps
\* its contents.
C4_ExistingFilesAreKept ==
    /\ cfgWasThere =>
         /\ cfgContent = OldConfig
         /\ PastCreateConfig => (taskpc = "panicked" /\ panicAt = "create_config")
    /\ csvWasThere =>
         /\ csvRows = << OldRow >>
         /\ ~NewSucceeded

(* -------------------------------- C5 ----------------------------------- *)
\* C5: when the result file or the config file is already there at startup,
\* the run fails before any probe is sent and the failed startup creates or
\* writes no file.
C5_FailedStartupLeavesNothing ==
    (cfgWasThere \/ csvWasThere) =>
        /\ started = 0
        /\ ~NewSucceeded
        /\ cfgExists = cfgWasThere
        /\ cfgContent = (IF cfgWasThere THEN OldConfig ELSE NoConfig)
        /\ csvExists = csvWasThere
        /\ csvRows = (IF csvWasThere THEN << OldRow >> ELSE << >>)

(* -------------------------------- C6 ----------------------------------- *)
\* a setup step has failed
SetupFailed ==
    \/ ~pathValid /\ mainpc # "check_path"
    \/ timeout >= delay * 1000 /\ mainpc \notin {"check_path", "check_timeout"}
    \/ panicAt \in SetupPanics

\* C6: a setup failure ends the process with a non-zero exit code before the
\* steady state begins and without waiting for the operator: no probe is
\* sent, and the process does not end with exit code zero.
C6_SetupFailureExitsNonZero ==
    SetupFailed =>
        /\ started = 0
        /\ mainpc = "exited" => exitCode # 0

(* -------------------------------- C7 ----------------------------------- *)
\* C7: last_success is the timestamp and latency of the most recent probe
\* that succeeded, absent if none did; last_failure is the timestamp of the
\* most recent probe that failed, absent if none did.
C7_RollingStateIsLastOfEachKind ==
    LET s == LastOf(TRUE, returned)
        f == LastOf(FALSE, returned)
    IN  /\ last_successful_time = (IF s = 0 THEN None ELSE probes[s].ts)
        /\ last_successful_latency = (IF s = 0 THEN None ELSE probes[s].out.rtt)
        /\ last_failed_time = (IF f = 0 THEN None ELSE probes[f].ts)

C7_Witness ==
    /\ returned = 2
    /\ probes[1].out.ok
    /\ ~probes[2].out.ok
    /\ last_successful_time = probes[1].ts
    /\ last_successful_latency = probes[1].out.rtt
    /\ last_failed_time = probes[2].ts

(* -------------------------------- C8 ----------------------------------- *)
\* C8: a probe has returned, or shows in the rolling state, only when its
\* row is in the result file.
C8_ReturnedProbesAreInTheLog ==
    NewSucceeded =>
        /\ returned <= Len(DataRows)
        /\ last_successful_time # None =>
             \E i \in 1 .. Len(DataRows) :
                 /\ ~DataRows[i].failed
                 /\ DataRows[i].ts = last_successful_time
                 /\ DataRows[i].ms = as_millis(last_successful_latency)
        /\ last_failed_time # None =>
             \E i \in 1 .. Len(DataRows) :
                 /\ DataRows[i].failed
                 /\ DataRows[i].ts = last_failed_time

C8_Witness ==
    /\ taskpc = "render"
    /\ returned = 2
    /\ Len(DataRows) = 2
    /\ last_successful_time # None
    /\ last_failed_time # None

(* -------------------------------- C9 ----------------------------------- *)
\* C9: a start with timeout (ms) >= delay (s) * 1000 is rejected before any
\* file is created, before the target is resolved and before any probe.
C9_LongTimeoutRejectedFirst ==
    timeout >= delay * 1000 =>
        /\ taskpc = "unspawned"
        /\ mainpc \in {"check_path", "check_timeout", "exited"}
        /\ mainpc = "exited" => exitCode = 1
        /\ cfgExists = cfgWasThere
        /\ cfgContent = (IF cfgWasThere THEN OldConfig ELSE NoConfig)
        /\ csvExists = csvWasThere
        /\ csvRows = (IF csvWasThere THEN << OldRow >> ELSE << >>)
        /\ ip_addr = NoAddr
        /\ lookups = << >>
        /\ started = 0

C9_Witness ==
    /\ timeout = 6000
    /\ delay = 5
    /\ pathValid
    /\ mainpc = "exited"
    /\ exitCode = 1
    /\ ~cfgExists
    /\ ~csvExists

(* -------------------------------- C10 ---------------------------------- *)
\* C10: when a write or a flush of the result file fails, the process halts,
\* no later probe is sent, no later row is appended and the rolling state is
\* not updated for the probe whose row was not persisted.
C10_WriteFailureHaltsTheProcess ==
    panicAt \in {"write_csv", "flush"} =>
        /\ mainpc = "exited"
        /\ exitCode # 0
        /\ taskpc = "panicked"
        /\ returned = started - 1

(* -------------------------------- C11 ---------------------------------- *)
\* the n-th probe has failed and ping has just returned to the loop
FailedProbeReturned(n) ==
    /\ taskpc = "render"
    /\ returned = n
    /\ ~probes[n].out.ok

\* C11: a failed probe is written as the row "<timestamp>,failed" and does
\* not stop the monitor: after it the loop waits for the next tick and, when
\* that tick is due, starts another probe (unless Ctrl+C ends the process).
C11_FailureDoesNotStopTheLoop ==
    /\ [](\A n \in 1 .. returned :
            ~probes[n].out.ok =>
                csvRows[n + 1] = [kind |-> "data", ts |-> probes[n].ts, failed |-> TRUE, ms |-> 0])
    /\ \A n \in 1 .. MaxProbes - 1 :
         FailedProbeReturned(n) ~>
             \/ started = n + 1
             \/ mainpc = "exited"
             \/ taskpc = "tick" /\ due = 0

C11_Witness ==
    /\ started = 2
    /\ taskpc = "transport"
    /\ ~probes[1].out.ok
    /\ csvRows[2].failed
    /\ last_failed_time = probes[1].ts

(* -------------------------------- C12 ---------------------------------- *)
\* C12: once Ctrl+C has been pressed while the monitor runs, the process
\* terminates with exit code zero, and no probe is started after main has
\* observed the signal.
C12_CtrlCTerminatesWithZero ==
    /\ (sigint /\ NewSucceeded) ~> (mainpc = "exited" /\ exitCode = 0)
    /\ [][mainpc' = "exited" => started' = started]_vars

C12_Witness ==
    /\ NewSucceeded
    /\ sigint
    /\ mainpc = "exited"
    /\ exitCode = 0
    /\ abortedAt = "tick"
    /\ returned = 1

(* -------------------------------- C13 ---------------------------------- *)
\* what a reader of the result file gets from one data row: the timestamp and
\* "failed", or a latency of that many whole milliseconds
ParseRow(row) ==
    [ts |-> row.ts,
     out |-> IF row.failed THEN ErrOut ELSE OkOut(row.ms * UnitsPerMs)]

\* the rows written for the probes so far
WrittenRows == 1 .. (IF Len(DataRows) < Len(probes) THEN Len(DataRows) ELSE Len(probes))

\* C13 as stated: every row parses back to the timestamp and the outcome of
\* the probe that produced it, the parsed latency being the latency the
\* transport returned.
C13_RowParsesBackToTheProbe ==
    NewSucceeded =>
        \A i \in WrittenRows : ParseRow(DataRows[i]) = probes[i]

\* C13 amended: every row parses back to the timestamp of its probe, to
\* whether it failed, and to its latency cut down to whole milliseconds; two
\* probes that differ in one of these three never give the same row.
C13_RowKeepsWholeMilliseconds ==
    NewSucceeded =>
        /\ \A i \in WrittenRows :
             LET p == ParseRow(DataRows[i])
             IN  /\ p.ts = probes[i].ts
                 /\ p.out.ok = probes[i].out.ok
                 /\ p.out.ok =>
                      /\ p.out.rtt <= probes[i].out.rtt
                      /\ probes[i].out.rtt < p.out.rtt + UnitsPerMs
        /\ \A i, j \in WrittenRows :
             (\/ probes[i].ts # probes[j].ts
              \/ probes[i].out.ok # probes[j].out.ok
              \/ as_millis(probes[i].out.rtt) # as_millis(probes[j].out.rtt))
             => DataRows[i] # DataRows[j]

\* a latency with a part below one millisecond has been written, next to a
\* failed probe
C13_Witness ==
    /\ NewSucceeded
    /\ Len(DataRows) = 2
    /\ probes[1].out.ok
    /\ probes[1].out.rtt % UnitsPerMs # 0
    /\ ParseRow(DataRows[1]).out.rtt # probes[1].out.rtt
    /\ ~probes[2].out.ok
    /\ DataRows[2].failed

(* -------------------------------- C14 ---------------------------------- *)
\* process_ip has returned or panicked
ResolveDone ==
    /\ taskpc \notin {"unspawned", "resolve"}
    /\ ~(taskpc = "aborted" /\ abortedAt \in {"unspawned", "resolve"})

\* C14: for an address string that parses as an IPv4 or IPv6 literal,
\* process_ip returns exactly that address and looks nothing up; a lookup is
\* made only for a string that does not parse as a literal.
C14_LiteralIsReturnedWithoutLookup ==
    /\ (ResolveDone /\ ParsesAsIp(addr)) =>
           /\ ip_addr = addr
           /\ lookups = << >>
           /\ panicAt # "process_ip"
    /\ lookups # << >> => ~ParsesAsIp(addr)
    /\ (ResolveDone /\ ~ParsesAsIp(addr)) => lookups = << LookupName(addr) >>

C14_Witness ==
    /\ addr = "2001:db8::1"
    /\ ip_addr = "2001:db8::1"
    /\ lookups = << >>
    /\ cfgContent.address = "2001:db8::1"
    /\ taskpc = "tick"

(* -------------------------------- C15 ---------------------------------- *)
\* the rolling state is the one left by exactly the first n probes
StateReflects(n) ==
    /\ last_successful_time =
           IF LastOf(TRUE, n) = 0 THEN None ELSE probes[LastOf(TRUE, n)].ts
    /\ last_successful_latency =
           IF LastOf(TRUE, n) = 0 THEN None ELSE probes[LastOf(TRUE, n)].out.rtt
    /\ last_failed_time =
           IF LastOf(FALSE, n) = 0 THEN None ELSE probes[LastOf(FALSE, n)].ts

\* C15: at most one probe is in flight; when the transport call of probe
\* n+1 begins, the row of probe n is in the file and the rolling state has
\* been updated for it; the state the screen code reads after tick n is the
\* one left by exactly the probes 1..n.
C15_ProbesAreSerialized ==
    NewSucceeded =>
        /\ started - returned \in {0, 1}
        /\ taskpc = "transport" =>
             /\ returned = started - 1
             /\ Len(probes) = started - 1
             /\ Len(DataRows) = started - 1
             /\ StateReflects(started - 1)
        /\ taskpc = "render" =>
             /\ ticks = returned
             /\ started = returned
             /\ Len(probes) = returned
             /\ Len(DataRows) = returned
             /\ StateReflects(returned)

\* the second probe is with the transport, the first one is done
C15_Witness ==
    /\ taskpc = "transport"
    /\ started = 2
    /\ returned = 1
    /\ Len(DataRows) = 1
    /\ probes[1].out.ok
    /\ last_successful_time = probes[1].ts

(* -------------------------------- C16 ---------------------------------- *)
\* C16: every tick taken by the loop leads to exactly one call of the
\* transport, whatever its outcome: the calls made are as many as the ticks
\* taken (one less between the tick and the call it leads to), and a failed
\* probe is not sent again before the next tick.
C16_OneTransportCallPerTick ==
    /\ started = IF taskpc = "ping" THEN ticks - 1 ELSE ticks
    /\ Len(probes) <= ticks
    /\ \A n \in 1 .. Len(probes) :
         (~probes[n].out.ok /\ started > n) => ticks > n

\* a probe has failed, the next tick has been taken and its probe sent
C16_Witness ==
    /\ ticks = 2
    /\ started = 2
    /\ Len(probes) = 2
    /\ ~probes[1].out.ok
    /\ ~probes[2].out.ok
    /\ taskpc = "tick"

(* -------------------------------- C17 ---------------------------------- *)
\* C17: once Engine::new has returned, no step (those of Engine::ping
\* included) changes the resolved target, the timeout, the delay, the output
\* directory or the start timestamp; config.json is not written again; and
\* the result file only grows, by one row at a time, appended by write_csv
\* after the rows that are there.
C17_PingOnlyAppendsAndUpdatesState ==
    [][NewSucceeded =>
           /\ ip_addr' = ip_addr
           /\ start_time' = start_time
           /\ timeout' = timeout
           /\ delay' = delay
           /\ pathValid' = pathValid
           /\ cfgExists' = cfgExists
           /\ cfgContent' = cfgContent
           /\ csvExists' = csvExists
           /\ Len(csvRows') \in {Len(csvRows), Len(csvRows) + 1}
           /\ SubSeq(csvRows', 1, Len(csvRows)) = csvRows
           /\ Len(csvRows') = Len(csvRows) + 1 => taskpc = "write_all"]_vars

\* two pings have returned with the Engine as it was built
C17_Witness ==
    /\ NewSucceeded
    /\ returned = 2
    /\ Len(csvRows) = 3
    /\ ip_addr = DnsAnswer
    /\ start_time # None
    /\ cfgContent = ConfigJson(ip_addr, timeout, delay)
    /\ last_successful_time # None
    /\ last_failed_time # None

(* -------------------------------- C18 ---------------------------------- *)
\* C18: the timestamp of a probe is the wall clock read when ping begins,
\* before the transport is called; it does not change while the probe is in
\* flight, and it is the value written to the row, stored in the rolling
\* state and returned to the caller.
C18_TimestampIsTakenBeforeTheTransport ==
    [][/\ (taskpc = "ping" /\ taskpc' = "transport") => curr_time' = now
       /\ taskpc \in InFlightPcs => curr_time' = curr_time
       /\ (taskpc = "write_all" /\ taskpc' = "flush") =>
              /\ Len(csvRows') = Len(csvRows) + 1
              /\ csvRows'[Len(csvRows')].ts = curr_time
       /\ (taskpc = "flush" /\ taskpc' = "render") =>
              /\ probes[Len(probes)].ts = curr_time
              /\ output.ok => last_successful_time' = curr_time
              /\ ~output.ok => last_failed_time' = curr_time]_vars

\* ping has returned after the clock has moved on: row, state and returned
\* value carry the time of the start
C18_Witness ==
    /\ taskpc = "render"
    /\ returned = 1
    /\ curr_time < now
    /\ csvRows[2].ts = curr_time
    /\ last_successful_time = curr_time
    /\ probes[1].ts = curr_time

(* -------------------------------- C19 ---------------------------------- *)
\* C19: in every state of the Engine the latency of the last success is
\* there exactly when its time is there, so the unwrap in
\* get_last_successful_latency, which the screen code calls only after it
\* has found the time, never panics.
C19_LatencyIsThereWithItsTime ==
    /\ (last_successful_latency = None) <=> (last_successful_time = None)
    /\ panicAt # "get_last_successful_latency"

\* the screen has been drawn after a success, and again after a failure
C19_Witness ==
    /\ taskpc = "tick"
    /\ returned = 2
    /\ probes[1].out.ok
    /\ ~probes[2].out.ok
    /\ last_successful_time # None
    /\ last_successful_latency # None
    /\ panicAt = ""

(* -------------------------------- C20 ---------------------------------- *)
\* C20: the starts of two consecutive probes are at least the configured
\* delay apart: when the loop has taken a tick and is about to send a probe
\* that is not the first one, a whole delay has passed since the probe
\* before it began, also when setup or a probe with its append took longer
\* than one interval.
C20_ProbesAreADelayApart ==
    (taskpc = "ping" /\ started >= 1) => elapsed

====
